---- MODULE Spec2Model ----
(***************************************************************************)
(* Health-data ingestion (src/api/ingest.py) and the MCP query server      *)
(* (src/api/mcp.py) over one shared Redis store.                           *)
(*                                                                         *)
(* Encoding of Python values                                               *)
(*   dict            a function whose DOMAIN is the set of its keys        *)
(*   parsed atom     [num |-> n] for a float, [str |-> <<tok, ...>>] for a *)
(*                   text line, given as the words it is made of           *)
(*   sample          a whole number (72 is 72.0)                           *)
(*   round(x, 2)     an integer number of hundredths (110.5 is 11050)      *)
(*   round(x, 1)     an integer number of tenths     (25.0 is 250)         *)
(*   None            where a number may stand: the definition None, a value *)
(*                   no modelled number takes; where a dict or a text may  *)
(*                   stand: the definition NoneObj, a record no dict or    *)
(*                   text of the program equals                            *)
(*   json text       [json |-> v] for json.dumps(v)                        *)
(*   f"...{x}..."    the tuple of the literal parts and the values         *)
(***************************************************************************)
EXTENDS Integers, Sequences, FiniteSets, TLC

VARIABLES
    now,        \* the host clock, in ticks (datetime.now())
    redis,      \* the Redis store: key |-> JSON text
    pc,         \* ingest handler of each worker: "idle" or "got" (between get and set)
    date_key,   \* ingest.do_POST local, per worker
    existing,   \* ingest.do_POST local, per worker: what redis.get returned
    form_data,  \* ingest.do_POST local, per worker
    resp,       \* ingest: the last HTTP response of each worker
    overlap,    \* history: another call was in flight during this worker's call
    rival,      \* history, per worker: the form of the call that wrote the same
                \* key while this worker's call was in flight
    calls,      \* number of ingestion calls started (bounded)
    values,     \* reducer input: the parsed atoms
    key,        \* reducer input: the metric name
    stats,      \* reducer output
    snapshot,   \* extractor input: one stored day document
    extracted,  \* extractor output
    request,    \* mcp.do_POST: the last JSON-RPC request body
    response    \* mcp.do_POST: the last response sent

ingestVars == <<pc, date_key, existing, form_data, resp, overlap, rival, calls>>
reduceVars == <<values, key, stats>>
extractVars == <<snapshot, extracted>>
mcpVars == <<request, response>>
vars == <<now, redis, ingestVars, reduceVars, extractVars, mcpVars>>

-----------------------------------------------------------------------------
(* Bounds *)

MaxAtoms == 4       \* longest raw payload (lines) handed to the parser

-----------------------------------------------------------------------------
(* Python helpers *)

None == -1000
NoneObj == [None |-> TRUE]
EmptyDict == [k \in {} |-> None]

\* d.get(k, default)
Get(d, k, default) == IF k \in DOMAIN d THEN d[k] ELSE default

\* {**a, **b}: b's keys win
Updated(a, b) ==
    [k \in DOMAIN a \cup DOMAIN b |-> IF k \in DOMAIN b THEN b[k] ELSE a[k]]

RECURSIVE SumSeq(_)
SumSeq(s) == IF s = <<>> THEN 0 ELSE Head(s) + SumSeq(Tail(s))

RECURSIVE MinSeq(_)
MinSeq(s) ==
    IF Len(s) = 1 THEN s[1]
    ELSE LET m == MinSeq(Tail(s)) IN IF s[1] < m THEN s[1] ELSE m

RECURSIVE MaxSeq(_)
MaxSeq(s) ==
    IF Len(s) = 1 THEN s[1]
    ELSE LET m == MaxSeq(Tail(s)) IN IF s[1] > m THEN s[1] ELSE m

\* round(n / d) for n >= 0, d > 0: Python rounds an exact half to the even
\* neighbour.
RoundDiv(n, d) ==
    LET q == n \div d
        r == n % d
    IN  IF 2 * r < d THEN q
        ELSE IF 2 * r > d THEN q + 1
        ELSE IF q % 2 = 0 THEN q ELSE q + 1

-----------------------------------------------------------------------------
(* ingest.py: the reducers *)

IsNum(v) == "num" \in DOMAIN v
IsStr(v) == "str" \in DOMAIN v

\* "tok" in v, for a text atom v
Contains(v, tok) == \E i \in 1..Len(v.str) : v.str[i] = tok

\* nums = [v for v in values if isinstance(v, (int, float))]
RECURSIVE Nums(_)
Nums(vs) ==
    IF vs = <<>> THEN <<>>
    ELSE IF IsNum(Head(vs)) THEN <<Head(vs).num>> \o Nums(Tail(vs))
    ELSE Nums(Tail(vs))

ZoneNames == {"rest", "light", "moderate", "hard", "max"}

\* (mutant) every boundary sample falls into the zone below
ZoneOfInclusive(hr) ==
    IF hr <= 100 THEN "rest"
    ELSE IF hr <= 120 THEN "light"
    ELSE IF hr <= 140 THEN "moderate"
    ELSE IF hr <= 160 THEN "hard"
    ELSE "max"

\* the if/elif chain of compute_hr_zones
ZoneOf(hr) ==
    IF hr < 100 THEN "rest"
    ELSE IF hr < 120 THEN "light"
    ELSE IF hr < 140 THEN "moderate"
    ELSE IF hr < 160 THEN "hard"
    ELSE "max"

compute_hr_zones(vs) ==
    LET nums == Nums(vs)
        total == Len(nums)
        zones == [z \in ZoneNames |->
                    Cardinality({i \in 1..total : ZoneOf(nums[i]) = z})]
    IN  IF total = 0 THEN EmptyDict
        ELSE [zones |-> zones,
              zone_pct |-> [z \in ZoneNames |-> RoundDiv(zones[z] * 100, total)],
              training_load |-> zones["moderate"] + zones["hard"] + zones["max"],
              high_intensity |-> zones["hard"] + zones["max"]]

StageNames == {"REM", "Core", "Deep", "Awake"}

\* (mutant) Awake/Wake is tested before Core/Light and Deep
StageOfAwakeFirst(v) ==
    IF ~IsStr(v) THEN ""
    ELSE IF Contains(v, "REM") THEN "REM"
    ELSE IF Contains(v, "Awake") \/ Contains(v, "Wake") THEN "Awake"
    ELSE IF Contains(v, "Core") \/ Contains(v, "Light") THEN "Core"
    ELSE IF Contains(v, "Deep") THEN "Deep"
    ELSE ""

\* the if/elif chain of compute_sleep_stats; "" when the atom is not counted
StageOf(v) ==
    IF ~IsStr(v) THEN ""
    ELSE IF Contains(v, "REM") THEN "REM"
    ELSE IF Contains(v, "Core") \/ Contains(v, "Light") THEN "Core"
    ELSE IF Contains(v, "Deep") THEN "Deep"
    ELSE IF Contains(v, "Awake") \/ Contains(v, "Wake") THEN "Awake"
    ELSE ""

compute_sleep_stats(vs) ==
    LET stages == [s \in StageNames |->
                     Cardinality({i \in 1..Len(vs) : StageOf(vs[i]) = s})]
        total == stages["REM"] + stages["Core"] + stages["Deep"] + stages["Awake"]
        fragmentation == RoundDiv(stages["Awake"] * 1000, total)
        quality ==
            IF fragmentation < 200 /\ stages["REM"] > 0 /\ stages["Deep"] > 0
            THEN "good"
            ELSE IF fragmentation < 350 THEN "fair" ELSE "poor"
    IN  IF total = 0 THEN [values |-> vs]
        ELSE [stages |-> stages,
              fragmentation_pct |-> fragmentation,
              quality |-> quality,
              has_rem |-> stages["REM"] > 0,
              has_deep |-> stages["Deep"] > 0]

\* key.lower().strip(), on the field names the model submits
key_lower(k) ==
    CASE k = "heartRate" -> "heartrate"
      [] k = "Sleep " -> "sleep"
      [] k = "exercise " -> "exercise"
      [] OTHER -> k

\* A raw payload is the sequence of its lines: [blank |-> TRUE] for a line of
\* white space only, [num |-> n] for a line float() accepts, [str |-> toks]
\* for any other line.  parse_values drops the blank lines and keeps the rest
\* in source order, a number as a float atom and a text line as it is.
RECURSIVE parse_values(_)
parse_values(raw) ==
    IF raw = <<>> THEN <<>>
    ELSE IF "blank" \in DOMAIN Head(raw) THEN parse_values(Tail(raw))
    ELSE <<Head(raw)>> \o parse_values(Tail(raw))

compute_stats(vs, k) ==
    LET nums == Nums(vs)
        result == [avg |-> RoundDiv(SumSeq(nums) * 100, Len(nums)),
                   min |-> MinSeq(nums) * 100,
                   max |-> MaxSeq(nums) * 100,
                   count |-> Len(nums)]
    IN  IF key_lower(k) = "sleep" THEN compute_sleep_stats(vs)
        ELSE IF nums = <<>> THEN [count |-> Len(vs)]
        ELSE IF key_lower(k) = "heartrate"
             THEN Updated(result, [hr_zones |-> compute_hr_zones(SelectSeq(vs, IsNum))])
        ELSE result

-----------------------------------------------------------------------------
(* Reducer inputs *)

HrSamples == {99, 100, 120, 140, 160}
StepSamples == {99, 100}
StageLines == {<<"REM">>, <<"Core">>, <<"Light">>, <<"Deep">>, <<"Awake">>,
               <<"Wake">>, <<"Core", "Awake">>, <<"InBed">>}

\* the lines a payload for metric k is made of
Lines(k) ==
    IF key_lower(k) = "sleep"
    THEN {[str |-> t] : t \in StageLines} \cup {[num |-> 100]}
    ELSE IF key_lower(k) = "heartrate"
    THEN {[num |-> n] : n \in HrSamples} \cup {[str |-> <<"REM">>]}
    ELSE {[num |-> n] : n \in StepSamples} \cup {[str |-> <<"REM">>]}

SeqsUpTo(S, n) == UNION {[1..m -> S] : m \in 0..n}

ReduceKeys == {"heartRate", "Sleep ", "steps"}

-----------------------------------------------------------------------------
(* The store and the clock, as both programs use them *)

TicksPerDay == 1     \* clock ticks in one calendar day

\* strftime("%Y-%m-%d") of the calendar day numbered n: one text per day
strftime(n) == "day" \o ToString(n)

\* (datetime.now() - timedelta(days=i)).strftime("%Y-%m-%d") at clock t
DateOf(t, i) == strftime((t \div TicksPerDay) - i)

\* f"health:{date_key}"
RedisKey(d) == "health:" \o d

json_dumps(v) == [json |-> v]
json_loads(text) == text.json

\* redis.get(key): the stored text, or None
redis_get(k) == IF k \in DOMAIN redis THEN redis[k] ELSE NoneObj

\* datetime.now().isoformat() at clock t
Stamp(t) == [iso |-> t]

\* a numeric line and a one-word text line of a payload
Nm(n) == [num |-> n]
WordLine(w) == [str |-> <<w>>]

\* bool(d) of a dict
NonEmpty(d) == DOMAIN d # {}

\* bool(x) of a number or None
Truthy(x) == x # None /\ x # 0

-----------------------------------------------------------------------------
(* mcp.py *)

get_health_data(d) ==
    LET data == redis_get(RedisKey(d))
    IN  IF data # NoneObj THEN json_loads(data) ELSE EmptyDict

get_cumulative_value(data, k) ==
    LET metric == Get(data, k, EmptyDict)
    IN  IF ~NonEmpty(metric) THEN 0
        ELSE IF "total" \in DOMAIN metric THEN metric["total"]
        ELSE IF "avg" \in DOMAIN metric /\ "count" \in DOMAIN metric
             THEN RoundDiv(metric["avg"] * metric["count"], 100)
        ELSE 0

\* data and "hrv" in data and data["hrv"].get("avg")
HasHrv(data) == "hrv" \in DOMAIN data /\ Truthy(Get(data["hrv"], "avg", None))

\* (mutant) the window starts at today
HrvWindowFromToday(days) == 0..(days - 1)

\* range(1, days + 1)
HrvWindow(days) == 1..days

get_hrv_baseline(days) ==
    LET found == {i \in HrvWindow(days) : HasHrv(get_health_data(DateOf(now, i)))}
        RECURSIVE Total(_)
        Total(S) == IF S = {} THEN 0
                    ELSE LET i == CHOOSE j \in S : TRUE
                         IN  get_health_data(DateOf(now, i))["hrv"]["avg"] + Total(S \ {i})
    IN  IF found = {} THEN [baseline |-> None, days |-> 0]
        ELSE [baseline |-> RoundDiv(Total(found), 10 * Cardinality(found)),
              days |-> Cardinality(found)]

NoDataToday == [error |-> "No data synced today. Run iOS shortcuts."]

tool_get_today ==
    LET data == get_health_data(DateOf(now, 0))
    IN  IF ~NonEmpty(data) THEN json_dumps(NoDataToday) ELSE json_dumps(data)

\* the row tool_get_trends builds for one non-empty snapshot
day_data(data) ==
    LET base == [hrv |-> Get(Get(data, "hrv", EmptyDict), "avg", None),
                 resting_hr |-> Get(Get(data, "heartRate", EmptyDict), "min", None),
                 exercise_min |-> get_cumulative_value(data, "exercise"),
                 steps |-> get_cumulative_value(data, "steps")]
        zones == IF "heartRate" \in DOMAIN data /\ "hr_zones" \in DOMAIN data["heartRate"]
                 THEN [hr_zones |-> Get(data["heartRate"]["hr_zones"], "zone_pct", None)]
                 ELSE EmptyDict
        sleep == IF "sleep" \in DOMAIN data
                 THEN [sleep |->
                        [fragmentation_pct |-> Get(data["sleep"], "fragmentation_pct", None),
                         has_deep |-> Get(data["sleep"], "has_deep", None),
                         has_rem |-> Get(data["sleep"], "has_rem", None)]]
                 ELSE EmptyDict
    IN  Updated(Updated(base, zones), sleep)

NoDataFor(days) == [error |-> <<"No data for last ", days, " days.">>]

tool_get_trends(days) ==
    LET dates == {DateOf(now, i) : i \in 0..(days - 1)}
        results == [d \in {e \in dates : NonEmpty(get_health_data(e))} |->
                        day_data(get_health_data(d))]
    IN  IF ~NonEmpty(results) THEN json_dumps(NoDataFor(days))
        ELSE json_dumps(results)

get_day_summary(data) ==
    LET hrv == IF HasHrv(data) THEN [hrv |-> RoundDiv(data["hrv"]["avg"], 10)]
               ELSE EmptyDict
        zones == IF "heartRate" \in DOMAIN data /\ "hr_zones" \in DOMAIN data["heartRate"]
                 THEN [hr_zones |-> Get(data["heartRate"]["hr_zones"], "zone_pct", None)]
                 ELSE EmptyDict
        exercise == IF "exercise" \in DOMAIN data
                    THEN [exercise_min |-> get_cumulative_value(data, "exercise")]
                    ELSE EmptyDict
        summary == Updated(Updated(hrv, zones), exercise)
    IN  IF ~NonEmpty(data) THEN NoneObj
        ELSE IF NonEmpty(summary) THEN summary ELSE NoneObj

HrvBaselineDays == 14
TrendDays == 7
RecentDays == 3

\* EXERCISE_DAYS_PER_WEEK is unset: parse_exercise_routine() is {}
parse_exercise_routine == EmptyDict

tool_get_recovery_status ==
    LET data == get_health_data(DateOf(now, 0))
        baseline == get_hrv_baseline(HrvBaselineDays)
        routine == parse_exercise_routine
        status == [date |-> DateOf(now, 0),
                   weekly_routine |-> IF NonEmpty(routine) THEN routine ELSE NoneObj]
        hrv == IF "hrv" \in DOMAIN data /\ Truthy(Get(data["hrv"], "avg", None))
               THEN LET h == data["hrv"]["avg"]
                        b == baseline["baseline"]
                    IN  [hrv |-> [today |-> RoundDiv(h, 10),
                                  baseline |-> b,
                                  baseline_days |-> baseline["days"],
                                  vs_baseline_pct |->
                                      IF Truthy(b) THEN RoundDiv((h - 10 * b) * 10, b)
                                      ELSE None]]
               ELSE EmptyDict
        hr == IF "heartRate" \in DOMAIN data
              THEN Updated([resting_hr |-> Get(data["heartRate"], "min", None)],
                           IF "hr_zones" \in DOMAIN data["heartRate"]
                           THEN [hr_zones |->
                                    Get(data["heartRate"]["hr_zones"], "zone_pct", None)]
                           ELSE EmptyDict)
              ELSE EmptyDict
        sleep == IF "sleep" \in DOMAIN data
                 THEN [sleep |->
                        [stages |-> Get(data["sleep"], "stages", None),
                         fragmentation_pct |-> Get(data["sleep"], "fragmentation_pct", None),
                         has_deep |-> Get(data["sleep"], "has_deep", None),
                         has_rem |-> Get(data["sleep"], "has_rem", None)]]
                 ELSE EmptyDict
        exercise == IF "exercise" \in DOMAIN data
                    THEN [exercise_min |-> get_cumulative_value(data, "exercise")]
                    ELSE EmptyDict
        resp_rate == IF "respRate" \in DOMAIN data
                     THEN [respiratory_rate |-> Get(data["respRate"], "avg", None)]
                     ELSE EmptyDict
        steps == IF "steps" \in DOMAIN data
                 THEN [steps |-> get_cumulative_value(data, "steps")]
                 ELSE EmptyDict
        recent_days ==
            LET found == {j \in 1..RecentDays :
                            get_day_summary(get_health_data(DateOf(now, j))) # NoneObj}
                back == [k \in {"day_minus_" \o ToString(j) : j \in found} |->
                            CHOOSE j \in found : k = "day_minus_" \o ToString(j)]
            IN  [k \in DOMAIN back |->
                    get_day_summary(get_health_data(DateOf(now, back[k])))]
        recent == IF NonEmpty(recent_days) THEN [recent_days |-> recent_days]
                  ELSE EmptyDict
    IN  json_dumps(Updated(Updated(Updated(Updated(Updated(Updated(Updated(
            status, hrv), hr), sleep), exercise), resp_rate), steps), recent))

TOOLS == <<"get_today", "get_trends", "get_recovery_status">>

UnknownTool(name) == [error |-> <<"Unknown tool: ", name>>]

\* (mutant) the last branch of the chain answers every other name
handle_tool_call_fallthrough(name, args) ==
    IF name = "get_today" THEN tool_get_today
    ELSE IF name = "get_trends" THEN tool_get_trends(Get(args, "days", TrendDays))
    ELSE tool_get_recovery_status

handle_tool_call(name, args) ==
    IF name = "get_today" THEN tool_get_today
    ELSE IF name = "get_trends" THEN tool_get_trends(Get(args, "days", TrendDays))
    ELSE IF name = "get_recovery_status" THEN tool_get_recovery_status
    ELSE json_dumps(UnknownTool(name))

MethodNotFound == -32601

\* the JSON body do_POST sends for one request body
Reply(body) ==
    LET method == Get(body, "method", "")
        req_id == Get(body, "id", None)
        params == Get(body, "params", EmptyDict)
        head == [jsonrpc |-> "2.0", id |-> req_id]
    IN  IF method = "initialize"
        THEN Updated(head, [result |->
                [protocolVersion |-> "2024-11-05",
                 capabilities |-> [tools |-> EmptyDict],
                 serverInfo |-> [name |-> "health", version |-> "1.0.0"]]])
        ELSE IF method = "tools/list"
        THEN Updated(head, [result |-> [tools |-> TOOLS]])
        ELSE IF method = "tools/call"
        THEN LET result == handle_tool_call(Get(params, "name", ""),
                                            Get(params, "arguments", EmptyDict))
             IN  Updated(head, [result |->
                        [content |-> <<[type |-> "text", text |-> result]>>]])
        ELSE Updated(head, [error |-> [code |-> MethodNotFound,
                                       message |-> <<"Unknown method: ", method>>]])

-----------------------------------------------------------------------------
(* The values no specification touches *)

Workers == {1, 2}
NoResponse == [status |-> 0]
NoResult == [fn |-> "none"]

IdleIngest ==
    /\ pc = [w \in Workers |-> "idle"]
    /\ date_key = [w \in Workers |-> ""]
    /\ existing = [w \in Workers |-> NoneObj]
    /\ form_data = [w \in Workers |-> EmptyDict]
    /\ resp = [w \in Workers |-> NoResponse]
    /\ overlap = [w \in Workers |-> FALSE]
    /\ rival = [w \in Workers |-> NoneObj]
    /\ calls = 0

IdleReduce == values = <<>> /\ key = "" /\ stats = NoResult
IdleExtract == snapshot = EmptyDict /\ extracted = NoResult
IdleMcp == request = EmptyDict /\ response = NoResponse

-----------------------------------------------------------------------------
(* ingest.py: do_POST *)

MaxNow == 1         \* the clock runs from 0 to MaxNow
MaxCalls == 3       \* ingestion calls in one run

Blank == [blank |-> TRUE]
RawNums == <<Nm(100), Nm(99)>>
RawMixed == <<Blank, Nm(120), WordLine("REM")>>

\* parse_qs(body): field |-> the list of its values; the model submits one
\* value per field
Forms ==
    {EmptyDict,
     [steps |-> <<RawNums>>],
     [steps |-> <<RawMixed>>],
     [hrv |-> <<RawNums>>],
     [_updated |-> <<RawNums>>]}

\* (mutant) the key of the day the call runs on
date_key_today(t) == DateOf(t, 0)

\* yesterday = datetime.now() - timedelta(days=1); yesterday.strftime(...)
date_key_of(t) == DateOf(t, 1)

\* the summaries the loop over form_data.items() assigns
field_updates(form) ==
    [k \in DOMAIN form |->
        compute_stats(parse_values(IF form[k] # <<>> THEN form[k][1] ELSE <<>>), k)]

\* (mutant) the document written holds the submitted fields only
health_data_replaced(text, form, t) ==
    Updated(field_updates(form), [_updated |-> Stamp(t)])

\* health_data as it stands at redis.set
health_data_of(text, form, t) ==
    LET loaded == IF text # NoneObj THEN json_loads(text) ELSE EmptyDict
    IN  Updated(Updated(loaded, field_updates(form)), [_updated |-> Stamp(t)])

OkResponse(w) ==
    [status |-> 200,
     body |-> [ok |-> TRUE, date |-> date_key[w], keys |-> DOMAIN form_data[w]]]

\* (mutant) the handler catches the failure of redis.set and answers as usual
RaisedResponseSwallowed(w) == OkResponse(w)

\* redis.set raised: the handler is left without sending its 200 response
RaisedResponse(w) == [status |-> 500, body |-> [error |-> "exception"]]

InFlight(w) == pc[w] = "got"

\* the document stored under worker w's key, {} when there is none
StoredAt(store, w) ==
    IF RedisKey(date_key[w]) \in DOMAIN store
    THEN store[RedisKey(date_key[w])].json ELSE EmptyDict

\* lines 137-142: the request carries no valid bearer token
PostUnauthorized(w) ==
    /\ pc[w] = "idle"
    /\ calls < MaxCalls
    /\ calls' = calls + 1
    /\ resp' = [resp EXCEPT ![w] = [status |-> 401, body |-> [error |-> "unauthorized"]]]
    /\ UNCHANGED <<now, redis, pc, date_key, existing, form_data, overlap, rival,
                   reduceVars, extractVars, mcpVars>>

\* lines 144-153: parse the form, compute the key, redis.get
PostGet(w, form) ==
    /\ pc[w] = "idle"
    /\ calls < MaxCalls
    /\ calls' = calls + 1
    /\ form_data' = [form_data EXCEPT ![w] = form]
    /\ date_key' = [date_key EXCEPT ![w] = date_key_of(now)]
    /\ existing' = [existing EXCEPT ![w] = redis_get(RedisKey(date_key_of(now)))]
    /\ pc' = [pc EXCEPT ![w] = "got"]
    /\ overlap' = [v \in Workers |->
                      IF v = w THEN \E u \in Workers \ {w} : InFlight(u)
                      ELSE overlap[v] \/ InFlight(v)]
    /\ rival' = [rival EXCEPT ![w] = NoneObj]
    /\ UNCHANGED <<now, redis, resp, reduceVars, extractVars, mcpVars>>

\* (mutant) the snapshot is read again at the moment of the write
existing_reread(w) == redis_get(RedisKey(date_key[w]))

\* json.loads(existing) if existing else {}: what redis.get returned at line 153
existing_of(w) == existing[w]

\* the handler returns: its locals are gone
Return(w) ==
    /\ pc' = [pc EXCEPT ![w] = "idle"]
    /\ date_key' = [date_key EXCEPT ![w] = ""]
    /\ existing' = [existing EXCEPT ![w] = NoneObj]
    /\ form_data' = [form_data EXCEPT ![w] = EmptyDict]

\* lines 154-171: merge, stamp, redis.set, answer 200
PostSet(w) ==
    /\ pc[w] = "got"
    /\ LET health_data == health_data_of(existing_of(w), form_data[w], now)
       IN  /\ redis' = Updated(redis, [k \in {RedisKey(date_key[w])} |->
                                          json_dumps(health_data)])
           /\ rival' = [v \in Workers |->
                          IF v # w /\ InFlight(v) /\ date_key[v] = date_key[w]
                          THEN form_data[w] ELSE rival[v]]
    /\ resp' = [resp EXCEPT ![w] = OkResponse(w)]
    /\ Return(w)
    /\ UNCHANGED <<now, overlap, calls, reduceVars, extractVars, mcpVars>>

\* line 162 raises: the backend refused the write
PostSetRaises(w) ==
    /\ pc[w] = "got"
    /\ resp' = [resp EXCEPT ![w] = RaisedResponse(w)]
    /\ Return(w)
    /\ UNCHANGED <<now, redis, overlap, rival, calls, reduceVars, extractVars, mcpVars>>

\* the host clock moves on
Tick ==
    /\ now < MaxNow
    /\ now' = now + 1
    /\ UNCHANGED <<redis, ingestVars, reduceVars, extractVars, mcpVars>>

Init ==
    /\ now = 0
    /\ redis = EmptyDict
    /\ IdleIngest /\ IdleReduce /\ IdleExtract /\ IdleMcp

Next ==
    \/ Tick
    \/ \E w \in Workers : PostUnauthorized(w)
    \/ \E w \in Workers, form \in Forms : PostGet(w, form)
    \/ \E w \in Workers : PostSet(w)
    \/ \E w \in Workers : PostSetRaises(w)

Spec == Init /\ [][Next]_vars

-----------------------------------------------------------------------------
(* Ingestion claims *)

\* worker w's call passes redis.set in this step, and is answered 200 or not
SetStep(w) == pc[w] = "got" /\ pc'[w] = "idle"
Answered200(w) == resp'[w]["status"] = 200

\* the summary of the raw text the call of worker w submits for field f
Submitted(w, f) == compute_stats(parse_values(form_data[w][f][1]), f)

\* the metric fields of a document: all but the time stamp
Metrics(doc) == DOMAIN doc \ {"_updated"}

\* every key of the store but worker w's holds what it held
OtherKeysKept(w) ==
    /\ DOMAIN redis' = DOMAIN redis \cup {RedisKey(date_key[w])}
    /\ \A k \in DOMAIN redis \ {RedisKey(date_key[w])} : redis'[k] = redis[k]

\* the document under w's key after the step is `base` with the fields in
\* `named` set to what the call submitted for them, and a time stamp
Overwrites(w, base, named) ==
    LET after == StoredAt(redis', w)
    IN  /\ \A f \in named : f \in DOMAIN after /\ after[f] = Submitted(w, f)
        /\ \A f \in Metrics(base) \ DOMAIN form_data[w] :
                f \in DOMAIN after /\ after[f] = base[f]
        /\ Metrics(after) = Metrics(base) \cup Metrics(form_data[w])
        /\ "_updated" \in DOMAIN after

\* the ORIGINAL statement of C1
C1_Original ==
    [][\A w \in Workers :
        (SetStep(w) /\ Answered200(w) /\ ~overlap[w]) =>
            /\ Overwrites(w, StoredAt(redis, w), DOMAIN form_data[w])
            /\ OtherKeysKept(w)]_vars

\* C1 (amended): a call that overlaps no other leaves under its date key the
\* snapshot it found with every submitted field other than "_updated" set to
\* the summary of that call's raw text, every other metric field as it was,
\* no field removed, and "_updated" set to the time of the write, whatever was
\* submitted under that name; no other key changes.
C1_FieldOverwrite ==
    [][\A w \in Workers :
        (SetStep(w) /\ Answered200(w) /\ ~overlap[w]) =>
            /\ Overwrites(w, StoredAt(redis, w), Metrics(form_data[w]))
            /\ StoredAt(redis', w)["_updated"] = Stamp(now)
            /\ OtherKeysKept(w)]_vars

\* a second call, overlapping none, has set steps anew and kept the hrv the
\* first call stored
C1_Witness ==
    \E w \in Workers :
        /\ pc[w] = "idle" /\ ~overlap[w]
        /\ resp[w]["status"] = 200
        /\ resp[w]["body"]["keys"] = {"steps"}
        /\ RedisKey(resp[w]["body"]["date"]) \in DOMAIN redis
        /\ LET doc == redis[RedisKey(resp[w]["body"]["date"])].json
           IN  /\ DOMAIN doc = {"steps", "hrv", "_updated"}
               /\ doc["hrv"] = compute_stats(parse_values(RawNums), "hrv")

RivalOnly(w) == Metrics(rival[w]) \ DOMAIN form_data[w]

\* worker w writes after a call that read before w wrote and wrote while w
\* was in flight
LaterWriter(w) == SetStep(w) /\ Answered200(w) /\ rival[w] # NoneObj

ReadBy(w) == IF existing[w] # NoneObj THEN existing[w].json ELSE EmptyDict

\* the ORIGINAL statement of C3, for the fields of the earlier writer
C3_Original ==
    [][\A w \in Workers :
        LaterWriter(w) =>
            \A f \in RivalOnly(w) : f \notin DOMAIN StoredAt(redis', w)]_vars

\* what the two calls would leave had they run one after the other
UnionDoc(w) ==
    Updated(Updated(Updated(ReadBy(w), field_updates(rival[w])),
                    field_updates(form_data[w])),
            [_updated |-> Stamp(now)])

\* C3 (amended): when two calls for one date key both read before either
\* writes, the final snapshot is the later writer's merged document: a field
\* only the earlier writer submitted has in it what the later writer read,
\* and is absent when the later writer read no such field; the final
\* snapshot is the union of both calls only when each such field was read
\* with the very summary the earlier writer submitted.
C3_LastWriterWins ==
    [][\A w \in Workers :
        LaterWriter(w) =>
            LET after == StoredAt(redis', w)
                read == ReadBy(w)
            IN  /\ Overwrites(w, read, Metrics(form_data[w]))
                /\ after["_updated"] = Stamp(now)
                /\ \A f \in RivalOnly(w) :
                      IF f \in DOMAIN read THEN after[f] = read[f]
                      ELSE f \notin DOMAIN after
                /\ (after = UnionDoc(w)) <=>
                      \A f \in RivalOnly(w) :
                          f \in DOMAIN read
                          /\ read[f] = field_updates(rival[w])[f]]_vars

\* both calls were answered ok for one date, one of them submitted steps, and
\* the snapshot holds no steps: the update is lost
C3_Witness ==
    \E w \in Workers, v \in Workers :
        /\ w # v /\ pc[w] = "idle" /\ pc[v] = "idle"
        /\ rival[w] # NoneObj /\ "steps" \in DOMAIN rival[w]
        /\ resp[w]["status"] = 200 /\ resp[v]["status"] = 200
        /\ resp[w]["body"]["date"] = resp[v]["body"]["date"]
        /\ resp[v]["body"]["keys"] = {"steps"}
        /\ resp[w]["body"]["keys"] = {"hrv"}
        /\ "steps" \notin DOMAIN redis[RedisKey(resp[w]["body"]["date"])].json

\* the calendar day of the clock
Today == now \div TicksPerDay

\* C10: from an empty store, under a clock that only moves forward, every
\* key ingestion writes is the key of a day before the current one: today's
\* snapshot is empty, get_today answers "No data synced today", the recovery
\* status holds none of today's fields, and what a call has just stored shows
\* in get_trends at offset 1 and not at offset 0.
C10_TodayEmpty ==
    /\ RedisKey(DateOf(now, 0)) \notin DOMAIN redis
    /\ \A k \in DOMAIN redis : \E n \in (0 - 1)..(Today - 1) : k = RedisKey(strftime(n))
    /\ \A w \in Workers : InFlight(w) =>
            \E n \in (0 - 1)..(Today - 1) : date_key[w] = strftime(n)
    /\ tool_get_today = [json |-> [error |-> "No data synced today. Run iOS shortcuts."]]
    /\ DOMAIN tool_get_recovery_status.json \subseteq {"date", "weekly_routine", "recent_days"}
    /\ "error" \in DOMAIN tool_get_trends(1).json
    /\ \A w \in Workers :
            (pc[w] = "idle" /\ resp[w]["status"] = 200
                /\ resp[w]["body"]["date"] = DateOf(now, 1)) =>
                    DateOf(now, 1) \in DOMAIN tool_get_trends(2).json

\* on day 1 a call stored hrv for day 0: get_trends shows it one day back
C10_Witness ==
    /\ Today = 1
    /\ \E w \in Workers :
            /\ pc[w] = "idle" /\ resp[w]["status"] = 200
            /\ resp[w]["body"]["date"] = DateOf(now, 1)
            /\ resp[w]["body"]["keys"] = {"hrv"}
    /\ DOMAIN tool_get_trends(2).json = {DateOf(now, 1)}

-----------------------------------------------------------------------------
(* Stored documents the query side is run on *)

\* day documents as ingestion writes them: each field holds compute_stats of
\* a payload, "_updated" the time of the write
DocStamp == [_updated |-> Stamp(0)]
DocHrvHr ==
    [hrv |-> compute_stats(<<Nm(50)>>, "hrv"),
     heartRate |-> compute_stats(<<Nm(99), Nm(120)>>, "heartRate"),
     _updated |-> Stamp(0)]
DocHrvExercise ==
    [hrv |-> compute_stats(<<Nm(41), Nm(42)>>, "hrv"),
     exercise |-> compute_stats(<<Nm(10), Nm(20)>>, "exercise"),
     _updated |-> Stamp(0)]
DocZeroHrv ==
    [hrv |-> compute_stats(<<Nm(0)>>, "hrv"),
     respRate |-> compute_stats(<<Nm(16)>>, "respRate"),
     _updated |-> Stamp(0)]
DocTextHrv ==
    [hrv |-> compute_stats(<<WordLine("n/a")>>, "hrv"),
     sleep |-> compute_stats(<<WordLine("REM"), WordLine("Deep")>>, "sleep"),
     _updated |-> Stamp(0)]

DayDocs == {DocStamp, DocHrvHr, DocHrvExercise, DocZeroHrv, DocTextHrv}

MaxBack == 3        \* the store holds documents for today and MaxBack days back
MaxDays == 4        \* largest window a caller asks for

\* every store over the days 0..MaxBack: each day absent or one of DayDocs
Stores ==
    LET Days == {strftime(n) : n \in 0..MaxBack}
    IN  UNION {[{RedisKey(d) : d \in S} -> {json_dumps(doc) : doc \in DayDocs}] :
                    S \in SUBSET Days}

ToolNames == {"get_today", "get_trends", "get_recovery_status", "get_sleep", ""}
Methods == {"initialize", "tools/list", "tools/call", "resources/list", ""}

Bodies ==
    {[method |-> m, id |-> 1] : m \in Methods \ {"", "tools/call"}}
    \cup {[id |-> 1]}
    \cup {[method |-> "tools/call", id |-> 1, params |-> EmptyDict]}
    \cup {[method |-> "tools/call", id |-> 1, params |-> [name |-> n]] :
            n \in ToolNames \ {""}}
    \cup {[method |-> "tools/call", id |-> 1,
           params |-> [name |-> "get_trends", arguments |-> [days |-> d]]] :
            d \in 0..MaxDays}
    \cup {[method |-> m, id |-> 1, params |-> [name |-> "get_today"]] :
            m \in {"resources/list", "get_today"}}

-----------------------------------------------------------------------------
(* SpecQuery: the MCP server over every bounded store *)

InitQuery ==
    /\ now = MaxBack * TicksPerDay
    /\ redis \in Stores
    /\ IdleIngest /\ IdleReduce /\ IdleExtract /\ IdleMcp

\* A run asks one question of the store it starts from: no query writes, so
\* what a later query would answer is what it answers as the first.
Unasked == response = NoResponse /\ extracted = NoResult

\* mcp.handler.do_POST
McpPost(authorized, body) ==
    /\ Unasked
    /\ request' = body
    /\ IF ~authorized
       THEN response' = [status |-> 401, body |-> [error |-> "unauthorized"]]
       ELSE response' = [status |-> 200, body |-> Reply(body)]
    /\ UNCHANGED <<now, redis, ingestVars, reduceVars, extractVars>>

\* get_hrv_baseline called with a window of its own
HrvBaseline(days) ==
    /\ Unasked
    /\ extracted' = [fn |-> "get_hrv_baseline", days |-> days,
                     out |-> get_hrv_baseline(days)]
    /\ UNCHANGED <<now, redis, ingestVars, reduceVars, snapshot, mcpVars>>

NextQuery ==
    \/ \E a \in BOOLEAN, body \in Bodies : McpPost(a, body)
    \/ \E days \in 0..MaxDays : HrvBaseline(days)

SpecQuery == InitQuery /\ [][NextQuery]_vars

\* the document stored for the day i days before today, {} when there is none
Stored(i) ==
    IF RedisKey(DateOf(now, i)) \in DOMAIN redis
    THEN redis[RedisKey(DateOf(now, i))].json
    ELSE EmptyDict

\* the day i days back holds an hrv summary whose avg is neither missing nor 0
HrvCounts(i) ==
    /\ "hrv" \in DOMAIN Stored(i)
    /\ "avg" \in DOMAIN Stored(i)["hrv"]
    /\ Stored(i)["hrv"]["avg"] # 0

RECURSIVE HrvSum(_)
HrvSum(S) ==
    IF S = {} THEN 0
    ELSE LET i == CHOOSE j \in S : TRUE
         IN  Stored(i)["hrv"]["avg"] + HrvSum(S \ {i})

\* C5: get_hrv_baseline(days) counts exactly the days today-1 .. today-days
\* whose snapshot has a truthy hrv.avg, answers the mean of those values
\* rounded to one decimal, and answers baseline None with days 0 when there
\* is none; today's snapshot has no part in it.
C5_HrvBaseline ==
    extracted.fn = "get_hrv_baseline" =>
        LET contributing == {i \in 1..extracted.days : HrvCounts(i)}
            n == Cardinality(contributing)
        IN  /\ extracted.out.days = n
            /\ n = 0 => extracted.out.baseline = None
            /\ n > 0 => extracted.out.baseline = RoundDiv(HrvSum(contributing), 10 * n)

\* today has an HRV value, two of the three days asked for have one, and the
\* answer is the mean of those two: (50.0 + 41.5) / 2 = 45.75, 45.8
C5_Witness ==
    /\ extracted.fn = "get_hrv_baseline"
    /\ extracted.days = 3
    /\ Stored(0) = DocHrvExercise
    /\ Stored(1) = DocHrvHr
    /\ Stored(2) = DocZeroHrv
    /\ Stored(3) = DocHrvExercise
    /\ extracted.out = [baseline |-> 458, days |-> 2]

Answered == response.status = 200
Method == Get(request, "method", "")
ToolName == Get(Get(request, "params", EmptyDict), "name", "")
ToolArgs == Get(Get(request, "params", EmptyDict), "arguments", EmptyDict)

\* C9: an authorized request with a method other than initialize, tools/list
\* and tools/call is answered with an error object of code -32601 and no
\* result; a tools/call naming no tool of the server is answered with a
\* result and no error object, its text being {"error": "Unknown tool:
\* <name>"}.
C9_UnknownShapes ==
    Answered =>
        /\ Method \notin {"initialize", "tools/list", "tools/call"} =>
              /\ "error" \in DOMAIN response.body
              /\ "result" \notin DOMAIN response.body
              /\ response.body["error"]["code"] = -32601
        /\ (Method = "tools/call"
              /\ ToolName \notin {"get_today", "get_trends", "get_recovery_status"}) =>
              /\ "result" \in DOMAIN response.body
              /\ "error" \notin DOMAIN response.body
              /\ response.body["result"]["content"] =
                    <<[type |-> "text",
                       text |-> [json |-> [error |-> <<"Unknown tool: ", ToolName>>]]]>>

\* tools/call of get_sleep, which the server does not have, has been answered
C9_Witness ==
    /\ Answered
    /\ Method = "tools/call"
    /\ ToolName = "get_sleep"
    /\ "result" \in DOMAIN response.body

\* the canonical fields a day document populates (hrv, resting_hr, hr_zones,
\* sleep, exercise_min, steps, active_calories, mindful_min, respiratory_rate)
TruthyAt(data, field, stat) ==
    /\ field \in DOMAIN data
    /\ stat \in DOMAIN data[field]
    /\ data[field][stat] # 0
Populated(data) ==
    \/ TruthyAt(data, "hrv", "avg")
    \/ TruthyAt(data, "heartRate", "min")
    \/ "heartRate" \in DOMAIN data /\ "hr_zones" \in DOMAIN data["heartRate"]
    \/ TruthyAt(data, "respRate", "avg")
    \/ DOMAIN data \cap {"sleep", "exercise", "exercise ", "steps",
                         "activeEnergy", "mindful"} # {}

\* C4: get_trends(days) answers a table whose keys are exactly the dates
\* today-i, 0 <= i < days, whose snapshot populates a canonical field, and the
\* "No data for last N days" payload when there is no such date.
C4_TrendDates ==
    (Answered /\ Method = "tools/call" /\ ToolName = "get_trends") =>
        LET days == Get(ToolArgs, "days", 7)
            qualifying == {DateOf(now, i) : i \in {j \in 0..(days - 1) : Populated(Stored(j))}}
            text == response.body["result"]["content"][1]["text"]
        IN  IF qualifying = {} THEN text = [json |-> [error |-> <<"No data for last ", days, " days.">>]]
            ELSE /\ "error" \notin DOMAIN text.json
                 /\ DOMAIN text.json = qualifying

-----------------------------------------------------------------------------
(* SpecExtract: day extraction applied to every bounded day document *)

\* cumulative summaries in both stored shapes: the new one carries total, the
\* old one is what compute_stats writes
NewShape(t) == [total |-> t]
OldShape(samples) == compute_stats(samples, "exercise")

ExerciseSummaries ==
    {NewShape(30), NewShape(45), OldShape(<<Nm(10), Nm(20)>>), OldShape(<<Nm(5)>>)}
ExerciseKeys == {"exercise", "exercise "}

ExerciseParts ==
    {EmptyDict} \cup {[k \in {ek} |-> m] : ek \in ExerciseKeys, m \in ExerciseSummaries}
HrvParts ==
    {EmptyDict, [hrv |-> compute_stats(<<Nm(50)>>, "hrv")],
     [hrv |-> compute_stats(<<Nm(0)>>, "hrv")]}
HeartParts ==
    {EmptyDict, [heartRate |-> compute_stats(<<Nm(99), Nm(120)>>, "heartRate")]}
StepsParts ==
    {EmptyDict, [steps |-> NewShape(5000)],
     [steps |-> [avg |-> 50000, min |-> 0, max |-> 100000, count |-> 10]]}

ExtractDocs ==
    {Updated(Updated(Updated(Updated(e, h), r), st), [_updated |-> Stamp(0)]) :
        e \in ExerciseParts, h \in HrvParts, r \in HeartParts, st \in StepsParts}

InitExtract ==
    /\ snapshot \in ExtractDocs
    /\ extracted = NoResult
    /\ now = 0 /\ redis = EmptyDict
    /\ IdleIngest /\ IdleReduce /\ IdleMcp

DaySummary ==
    /\ extracted' = [fn |-> "get_day_summary", out |-> get_day_summary(snapshot)]
    /\ UNCHANGED <<now, redis, ingestVars, reduceVars, snapshot, mcpVars>>

TrendRow ==
    /\ extracted' = [fn |-> "day_data", out |-> day_data(snapshot)]
    /\ UNCHANGED <<now, redis, ingestVars, reduceVars, snapshot, mcpVars>>

NextExtract == DaySummary \/ TrendRow

SpecExtract == InitExtract /\ [][NextExtract]_vars

\* the total a cumulative summary stands for, in either shape
TotalOf(m) ==
    IF "total" \in DOMAIN m THEN m["total"]
    ELSE RoundDiv(m["avg"] * m["count"], 100)

\* C6: the exercise_min that day extraction produces is the total of the
\* stored exercise summary, whether the summary is stored under "exercise "
\* or under "exercise", and whether it carries total or avg and count.
C6_ExerciseMin ==
    \A k \in ExerciseKeys :
        (extracted.fn \in {"get_day_summary", "day_data"} /\ k \in DOMAIN snapshot) =>
            Get(extracted.out, "exercise_min", None) = TotalOf(snapshot[k])

-----------------------------------------------------------------------------
(* SpecReduce: the reducers applied to every bounded payload *)

InitReduce ==
    /\ key \in ReduceKeys
    /\ values \in SeqsUpTo(Lines(key), MaxAtoms)
    /\ stats = NoResult
    /\ now = 0 /\ redis = EmptyDict
    /\ IdleIngest /\ IdleExtract /\ IdleMcp

ComputeStats ==
    /\ stats' = [fn |-> "compute_stats", out |-> compute_stats(values, key)]
    /\ UNCHANGED <<now, redis, ingestVars, values, key, extractVars, mcpVars>>

ComputeHrZones ==
    /\ stats' = [fn |-> "compute_hr_zones", out |-> compute_hr_zones(values)]
    /\ UNCHANGED <<now, redis, ingestVars, values, key, extractVars, mcpVars>>

ComputeSleepStats ==
    /\ stats' = [fn |-> "compute_sleep_stats", out |-> compute_sleep_stats(values)]
    /\ UNCHANGED <<now, redis, ingestVars, values, key, extractVars, mcpVars>>

NextReduce == ComputeStats \/ ComputeHrZones \/ ComputeSleepStats

SpecReduce == InitReduce /\ [][NextReduce]_vars

\* the samples of the payload that lie in [lo, hi)
InRange(lo, hi) ==
    LET nums == Nums(values)
    IN  Cardinality({i \in 1..Len(nums) : lo <= nums[i] /\ nums[i] < hi})

\* the samples of the payload that are at least lo
AtLeast(lo) ==
    LET nums == Nums(values)
    IN  Cardinality({i \in 1..Len(nums) : nums[i] >= lo})

\* the zones summary the heart-rate reducer produced, wherever it was called
HrZonesOut ==
    IF stats.fn = "compute_hr_zones" THEN stats.out ELSE stats.out.hr_zones

HrZonesRan ==
    \/ stats.fn = "compute_hr_zones"
    \/ stats.fn = "compute_stats" /\ key = "heartRate" /\ Nums(values) # <<>>

\* C7: every numeric sample is counted in exactly one zone, the zone of its
\* range (rest < 100 <= light < 120 <= moderate < 140 <= hard < 160 <= max),
\* so the five counts sum to the number of samples; training_load is
\* moderate + hard + max and high_intensity is hard + max; no sample gives
\* the empty summary.
C7_HrZones ==
    HrZonesRan =>
        LET out == HrZonesOut
            n == Len(Nums(values))
        IN  IF n = 0 THEN out = EmptyDict
            ELSE /\ out.zones["rest"] = Len(Nums(values)) - AtLeast(100)
                 /\ out.zones["light"] = InRange(100, 120)
                 /\ out.zones["moderate"] = InRange(120, 140)
                 /\ out.zones["hard"] = InRange(140, 160)
                 /\ out.zones["max"] = AtLeast(160)
                 /\ out.zones["rest"] + out.zones["light"] + out.zones["moderate"]
                        + out.zones["hard"] + out.zones["max"] = n
                 /\ out.training_load = out.zones["moderate"] + out.zones["hard"]
                                            + out.zones["max"]
                 /\ out.high_intensity = out.zones["hard"] + out.zones["max"]

\* one sample on each of the four boundaries has been bucketed
C7_Witness ==
    /\ stats.fn = "compute_hr_zones"
    /\ Nums(values) = <<100, 120, 140, 160>>
    /\ stats.out.zones = [z \in ZoneNames |-> IF z = "rest" THEN 0 ELSE 1]
    /\ stats.out.training_load = 3
    /\ stats.out.high_intensity = 2

\* the stage the precedence REM, Core/Light, Deep, Awake/Wake gives a text atom
HasWord(v, toks) == IsStr(v) /\ \E i \in 1..Len(v.str) : v.str[i] \in toks
CountAtoms(P(_)) == Cardinality({i \in 1..Len(values) : P(values[i])})
IsRem(v) == HasWord(v, {"REM"})
IsCore(v) == ~IsRem(v) /\ HasWord(v, {"Core", "Light"})
IsDeep(v) == ~IsRem(v) /\ ~IsCore(v) /\ HasWord(v, {"Deep"})
IsAwake(v) == ~IsRem(v) /\ ~IsCore(v) /\ ~IsDeep(v) /\ HasWord(v, {"Awake", "Wake"})
Recognized(v) == HasWord(v, {"REM", "Core", "Light", "Deep", "Awake", "Wake"})

SleepRan ==
    \/ stats.fn = "compute_sleep_stats"
    \/ stats.fn = "compute_stats" /\ key_lower(key) = "sleep"

\* C8: each text atom is counted in at most one stage, by the precedence REM,
\* Core/Light, Deep, Awake/Wake; numbers and unmatched text are not counted;
\* quality is "good" exactly when fragmentation_pct < 20 with REM and Deep
\* present, else "fair" exactly when fragmentation_pct < 35, else "poor";
\* has_rem and has_deep say whether the counts are positive; with nothing
\* recognized the result is {values: atoms}.
C8_SleepStats ==
    SleepRan =>
        LET out == stats.out
            rem == CountAtoms(IsRem)
            core == CountAtoms(IsCore)
            deep == CountAtoms(IsDeep)
            awake == CountAtoms(IsAwake)
        IN  IF CountAtoms(Recognized) = 0 THEN out = [values |-> values]
            ELSE /\ out.stages = [s \in StageNames |->
                        CASE s = "REM" -> rem [] s = "Core" -> core
                          [] s = "Deep" -> deep [] OTHER -> awake]
                 /\ rem + core + deep + awake = CountAtoms(Recognized)
                 /\ out.fragmentation_pct = RoundDiv(awake * 1000, rem + core + deep + awake)
                 /\ (out.quality = "good") <=>
                        (out.fragmentation_pct < 200 /\ rem > 0 /\ deep > 0)
                 /\ (out.quality = "fair") <=>
                        (out.quality # "good" /\ out.fragmentation_pct < 350)
                 /\ out.quality \in {"good", "fair", "poor"}
                 /\ out.has_rem = (rem > 0)
                 /\ out.has_deep = (deep > 0)

\* REM, Core, Deep, Awake once each, the atom holding both Core and Awake
\* counted as Core only: fragmentation 25.0, "fair"
C8_Witness ==
    /\ stats.fn = "compute_sleep_stats"
    /\ values = <<[str |-> <<"REM">>], [str |-> <<"Core", "Awake">>],
                  [str |-> <<"Deep">>], [str |-> <<"Awake">>]>>
    /\ stats.out.stages = [s \in StageNames |-> 1]
    /\ stats.out.fragmentation_pct = 250
    /\ stats.out.quality = "fair"

====
